---- MODULE Spec2Model ----
(***************************************************************************)
(* A model of the UDML translator (backend/udml/translator.py): the        *)
(* vendor mapping registry, translate, the peephole optimizer and the       *)
(* complexity analyzer, operating on one Program object held by a caller.   *)
(*                                                                          *)
(* Encoding of Python values:                                               *)
(*   - str                : a TLA+ string; a str that an f-string may build *)
(*                          (a comment, a program name) is the tuple of its *)
(*                          literal and interpolated pieces;                *)
(*   - Optional[str]      : the empty set for None, {s} for the string s;   *)
(*   - list               : a sequence (the code indexes from 0, the        *)
(*                          sequence from 1, so code index i is insts[i+1]);*)
(*   - dict (metadata)    : the set of its <<key, value>> pairs;            *)
(*   - dict (mapping)     : a function whose DOMAIN is the set of keys;     *)
(*   - a raised exception : its class name in the variable raised.          *)
(***************************************************************************)
EXTENDS Integers, Sequences, FiniteSets, TLC

\* Longest instruction / record list the caller passes in.
MaxLen == 3
\* Number of optimize calls made on one Program.
MaxPasses == 3
\* Longest program made of CALL and RET alone.
MaxNestLen == 6

None == {}
Some(s) == {s}

------------------------------------------------------------------------------
(* UDMLOpcode, the closed enumeration of unified opcodes.                   *)

UDMLOpcode ==
    { "LOAD", "STORE", "MOVE",
      "AND", "OR", "XOR", "NOT",
      "EQ", "NE", "GT", "LT", "GE", "LE",
      "ADD", "SUB", "MUL", "DIV", "MOD",
      "TON", "TOF", "TP", "CTU", "CTD", "CTUD",
      "CALL", "RET", "JMP", "JZ", "JNZ",
      "NOP", "SET", "RESET" }

\* The dataclass constructor UDMLInstruction(...).
UDMLInstruction(opcode, operands, source_vendor, source_instruction, address, metadata, comment) ==
    [ opcode             |-> opcode,
      operands           |-> operands,
      source_vendor      |-> source_vendor,
      source_instruction |-> source_instruction,
      address            |-> address,
      metadata           |-> metadata,
      comment            |-> comment ]

\* The dataclass constructor UDMLProgram(...).
UDMLProgram(program_name, source_vendor, instructions, global_variables, functions, metadata) ==
    [ program_name     |-> program_name,
      source_vendor    |-> source_vendor,
      instructions     |-> instructions,
      global_variables |-> global_variables,
      functions        |-> functions,
      metadata         |-> metadata ]

------------------------------------------------------------------------------
(* The per-vendor mapping tables, mnemonic -> opcode.                       *)

SIEMENS_MAPPING ==
    ("A" :> "AND") @@ ("AN" :> "AND") @@ ("O" :> "OR") @@ ("ON" :> "OR") @@
    ("X" :> "XOR") @@ ("=" :> "STORE") @@ ("L" :> "LOAD") @@ ("T" :> "STORE") @@
    ("S" :> "SET") @@ ("R" :> "RESET") @@ ("+I" :> "ADD") @@ ("-I" :> "SUB") @@
    ("*I" :> "MUL") @@ ("/I" :> "DIV") @@ ("==I" :> "EQ") @@ ("<>I" :> "NE") @@
    (">I" :> "GT") @@ ("<I" :> "LT") @@ ("CALL" :> "CALL")

MITSUBISHI_MAPPING ==
    ("LD" :> "LOAD") @@ ("LDI" :> "LOAD") @@ ("OUT" :> "STORE") @@
    ("AND" :> "AND") @@ ("ANI" :> "AND") @@ ("OR" :> "OR") @@ ("ORI" :> "OR") @@
    ("SET" :> "SET") @@ ("RST" :> "RESET") @@ ("MOV" :> "MOVE") @@
    ("ADD" :> "ADD") @@ ("SUB" :> "SUB") @@ ("MUL" :> "MUL") @@ ("DIV" :> "DIV")

ROCKWELL_MAPPING ==
    ("XIC" :> "LOAD") @@ ("XIO" :> "LOAD") @@ ("OTE" :> "STORE") @@
    ("OTL" :> "SET") @@ ("OTU" :> "RESET") @@ ("TON" :> "TON") @@
    ("TOF" :> "TOF") @@ ("CTU" :> "CTU") @@ ("CTD" :> "CTD") @@
    ("ADD" :> "ADD") @@ ("SUB" :> "SUB") @@ ("MUL" :> "MUL") @@
    ("DIV" :> "DIV") @@ ("EQU" :> "EQ") @@ ("NEQ" :> "NE") @@
    ("GRT" :> "GT") @@ ("LES" :> "LT") @@ ("JSR" :> "CALL")

LS_MAPPING ==
    ("LD" :> "LOAD") @@ ("OUT" :> "STORE") @@ ("AND" :> "AND") @@
    ("OR" :> "OR") @@ ("SET" :> "SET") @@ ("RST" :> "RESET") @@
    ("MOV" :> "MOVE") @@ ("ADD" :> "ADD") @@ ("SUB" :> "SUB")

OMRON_MAPPING ==
    ("LD" :> "LOAD") @@ ("OUT" :> "STORE") @@ ("AND" :> "AND") @@
    ("OR" :> "OR") @@ ("SET" :> "SET") @@ ("RSET" :> "RESET") @@
    ("MOV" :> "MOVE") @@ ("ADD" :> "ADD") @@ ("SUB" :> "SUB")

\* The registry UDMLTranslator.__init__ builds.
InitialVendorMappings ==
    ("siemens" :> SIEMENS_MAPPING) @@ ("mitsubishi" :> MITSUBISHI_MAPPING) @@
    ("rockwell" :> ROCKWELL_MAPPING) @@ ("ls" :> LS_MAPPING) @@
    ("omron" :> OMRON_MAPPING)

------------------------------------------------------------------------------
(* The inputs a caller passes to translate.                                 *)

\* Vendor strings: registered names in several letter cases, and names that
\* are not registered in any case.
VendorStrings ==
    { "siemens", "Siemens", "SIEMENS", "mitsubishi", "rockwell", "ROCKWELL",
      "ls", "LS", "omron", "abb", "ABB", "" }

\* A variant of Lower that leaves the string as it is.
LowerIdentity(s) == s

\* str.lower() on the vendor strings.
Lower(s) ==
    CASE s \in {"siemens", "Siemens", "SIEMENS"} -> "siemens"
      [] s \in {"rockwell", "ROCKWELL"}          -> "rockwell"
      [] s \in {"ls", "LS"}                      -> "ls"
      [] s \in {"abb", "ABB"}                    -> "abb"
      [] OTHER                                   -> s

\* Every key of every table.
MappedMnemonics ==
    UNION { DOMAIN InitialVendorMappings[v] : v \in DOMAIN InitialVendorMappings }

\* Mnemonics that are a key of no table: other letter cases of keys, and
\* strings unrelated to any key.
UnmappedMnemonics == { "And", "and", "ld", "an", "FOO", "" }

Mnemonics == MappedMnemonics \cup UnmappedMnemonics

\* A vendor instruction record: attrs is the set of attributes the object
\* has besides mnemonic (what hasattr / getattr see); a field whose attribute
\* is absent is never read.
Record(mnemonic, attrs, operands, address, comment) ==
    [ mnemonic |-> mnemonic,
      attrs    |-> attrs,
      operands |-> operands,
      address  |-> address,
      comment  |-> comment ]

AllAttrs == {"operands", "address", "comment"}

\* Single records: every mnemonic, with operands, with an empty operand
\* list, and as an object that has no attribute but its mnemonic.
SingleRecords ==
    { Record(m, AllAttrs, <<"I0.0", "Q0.0">>, 6, Some(<<"first">>)) : m \in Mnemonics }
    \cup { Record(m, AllAttrs, <<>>, 8, None) : m \in Mnemonics }
    \cup { Record(m, {}, <<>>, 0, None) : m \in Mnemonics }

\* Records that make up the longer inputs.
RecordPool ==
    { Record("LD",  AllAttrs, <<"X0">>, 0, Some(<<"in">>)),
      Record("OUT", AllAttrs, <<"Y0">>, 2, None),
      Record("ANI", AllAttrs, <<"X1">>, 4, Some(<<"negated">>)),
      Record("LD",  {"address"}, <<>>, 10, None),
      Record("FOO", {"operands"}, <<"X2">>, 0, None) }

SeqsUpTo(S, n) == UNION { [1..k -> S] : k \in 0..n }

RecordLists == { <<r>> : r \in SingleRecords } \cup SeqsUpTo(RecordPool, MaxLen)

------------------------------------------------------------------------------
(* The state: one translator, the Program object its caller holds, and the  *)
(* outcome of the last call.                                                *)

VARIABLES
    vendor_mappings,  \* self.vendor_mappings, the registry
    heap,             \* <<>> before a Program exists, <<P>> for the Program object P
    last,             \* the last call made: its name
    raised,           \* the exception the last call raised, "none" if it returned
    report,           \* what the last analyze_complexity returned: None or Some(r)
    exported,         \* the object the last export_json wrote: None or Some(d)
    log,              \* the logging calls made so far, in order
    calls,            \* optimize calls made on the current Program
    passes,           \* those of them that returned
    opt_in,           \* program.instructions when the last optimize was entered
    origins,          \* for each instruction the last optimize emitted, the
                      \* indices (0-based) of the input instructions it stands for
    tr_vendor,        \* the arguments of the translate call
    tr_input,
    threads           \* the calls in progress when several callers run at once:
                      \* for each caller, the frame of its call (its locals)

vars == << vendor_mappings, heap, last, raised, report, exported, log, calls, passes, opt_in,
           origins, tr_vendor, tr_input, threads >>

\* A logging call: the level, the format string and the interpolated values.
LogEntry(level, fmt, args) == [ level |-> level, fmt |-> fmt, args |-> args ]

program == heap[1]

------------------------------------------------------------------------------
(* translate and _translate_instruction.                                    *)

\* getattr(inst, name, default) / hasattr(inst, name) on a record.
HasAttr(inst, name) == name \in inst.attrs
GetAddress(inst) == IF HasAttr(inst, "address") THEN inst.address ELSE 0
GetComment(inst) == IF HasAttr(inst, "comment") THEN inst.comment ELSE None
GetOperands(inst) == IF HasAttr(inst, "operands") THEN inst.operands ELSE <<>>

\* A variant of NegatedMnemonics that also flags Siemens ON.
NegatedMnemonicsWithON == { "AN", "ANI", "XIO", "ON" }

\* The closed list of negated mnemonics.
NegatedMnemonics == { "AN", "ANI", "XIO" }

\* A variant of UnsupportedVendor that omits the check.
UnsupportedVendorUnchecked(mappings, vendor) == FALSE

\* if vendor_lower not in self.vendor_mappings: raise ValueError
UnsupportedVendor(mappings, vendor) == Lower(vendor) \notin DOMAIN mappings

\* A variant of UnmappedInstruction that keeps the record's operands.
UnmappedInstructionWithOperands(vendor, inst) ==
    UDMLInstruction("NOP", GetOperands(inst), vendor, inst.mnemonic, GetAddress(inst),
                    { <<"warning", "unmapped_instruction">> },
                    Some(<<"Unknown: ", inst.mnemonic>>))

\* The placeholder emitted for a mnemonic that is not a key of the table.
UnmappedInstruction(vendor, inst) ==
    UDMLInstruction("NOP", <<>>, vendor, inst.mnemonic, GetAddress(inst),
                    { <<"warning", "unmapped_instruction">> },
                    Some(<<"Unknown: ", inst.mnemonic>>))

\* A variant of MappedInstruction that does not take over the comment.
MappedInstructionNoComment(vendor, mapping, inst) ==
    UDMLInstruction(mapping[inst.mnemonic], GetOperands(inst), vendor,
                    inst.mnemonic, GetAddress(inst),
                    IF inst.mnemonic \in NegatedMnemonics
                        THEN { <<"negated", TRUE>> } ELSE {},
                    None)

\* The instruction emitted for a mnemonic that is a key of the table.
MappedInstruction(vendor, mapping, inst) ==
    UDMLInstruction(mapping[inst.mnemonic], GetOperands(inst), vendor,
                    inst.mnemonic, GetAddress(inst),
                    IF inst.mnemonic \in NegatedMnemonics
                        THEN { <<"negated", TRUE>> } ELSE {},
                    GetComment(inst))

IsMapped(mapping, inst) == inst.mnemonic \in DOMAIN mapping

\* str.upper() on the mnemonics.
Upper(m) ==
    CASE m \in { "And", "and" } -> "AND"
      [] m = "ld"               -> "LD"
      [] m = "an"               -> "AN"
      [] OTHER                  -> m

\* A variant of TranslateInstruction that looks the mnemonic up in upper case.
TranslateInstructionIgnoreCase(vendor, mapping, inst) ==
    LET folded == [ inst EXCEPT !.mnemonic = Upper(inst.mnemonic) ]
    IN  IF ~IsMapped(mapping, folded)
            THEN UnmappedInstruction(vendor, inst)
            ELSE MappedInstruction(vendor, mapping, folded)

\* _translate_instruction: the returned instruction.
TranslateInstruction(vendor, mapping, inst) ==
    IF ~IsMapped(mapping, inst)
        THEN UnmappedInstruction(vendor, inst)
        ELSE MappedInstruction(vendor, mapping, inst)

\* _translate_instruction: the logging calls it makes.
TranslateInstructionLog(vendor, mapping, inst) ==
    IF ~IsMapped(mapping, inst)
        THEN << LogEntry("WARNING", "Unknown instruction for {vendor}: {mnemonic}",
                         <<vendor, inst.mnemonic>>) >>
        ELSE <<>>

\* A variant of TranslateLoop that appends nothing for a record whose
\* mnemonic is not a key of the table.
RECURSIVE TranslateLoopSkipUnmapped(_, _, _, _, _, _)
TranslateLoopSkipUnmapped(vendor_lower, mapping, instructions, k, udml_instructions, logged) ==
    IF k > Len(instructions)
        THEN [ udml_instructions |-> udml_instructions, logged |-> logged ]
        ELSE TranslateLoopSkipUnmapped(vendor_lower, mapping, instructions, k + 1,
                 IF IsMapped(mapping, instructions[k])
                    THEN Append(udml_instructions,
                            TranslateInstruction(vendor_lower, mapping, instructions[k]))
                    ELSE udml_instructions,
                 logged \o TranslateInstructionLog(vendor_lower, mapping, instructions[k]))

\* The for loop of translate from record k on: the instructions appended
\* and the logging calls made, in order.
RECURSIVE TranslateLoop(_, _, _, _, _, _)
TranslateLoop(vendor_lower, mapping, instructions, k, udml_instructions, logged) ==
    IF k > Len(instructions)
        THEN [ udml_instructions |-> udml_instructions, logged |-> logged ]
        ELSE TranslateLoop(vendor_lower, mapping, instructions, k + 1,
                 Append(udml_instructions,
                        TranslateInstruction(vendor_lower, mapping, instructions[k])),
                 logged \o TranslateInstructionLog(vendor_lower, mapping, instructions[k]))

\* The Program translate builds around the translated instructions.
TranslatedProgram(vendor, udml_instructions) ==
    UDMLProgram(<<vendor, "_program">>, vendor, udml_instructions, {}, <<>>,
                { <<"translation_date", "2024-01-01">>,
                  <<"translator_version", "1.0.0">> })

\* A variant of RegistryAfterTranslate that stores every mnemonic it did not
\* find under NOP, so that the next lookup finds it.
RegistryAfterTranslateCaching(mappings, vendor_lower, instructions) ==
    [ mappings EXCEPT ![vendor_lower] =
        [ m \in DOMAIN @ \cup { instructions[k].mnemonic : k \in 1..Len(instructions) } |->
             IF m \in DOMAIN @ THEN @[m] ELSE "NOP" ] ]

\* The registry after a translate call that returned: translate indexes
\* self.vendor_mappings, _translate_instruction tests mnemonic not in mapping
\* and reads mapping[mnemonic]; neither stores into a table.
RegistryAfterTranslate(mappings, vendor_lower, instructions) == mappings

\* translate(vendor, instructions), the first call of a caller who holds no
\* Program yet.
Translate ==
    /\ last = "init"
    /\ \E vendor \in VendorStrings, instructions \in RecordLists :
          /\ tr_vendor' = Some(vendor)
          /\ tr_input' = instructions
          /\ last' = "translate"
          /\ IF UnsupportedVendor(vendor_mappings, vendor)
                THEN /\ raised' = "ValueError"
                     /\ heap' = heap
                     /\ log' = log
                     /\ vendor_mappings' = vendor_mappings
             ELSE IF Lower(vendor) \notin DOMAIN vendor_mappings
                \* self.vendor_mappings[vendor_lower] on a missing key
                THEN /\ raised' = "KeyError"
                     /\ heap' = heap
                     /\ vendor_mappings' = vendor_mappings
                     /\ log' = Append(log, LogEntry("INFO",
                                   "Translating {len(instructions)} instructions from {vendor}",
                                   <<Len(instructions), vendor>>))
                ELSE LET r == TranslateLoop(Lower(vendor),
                                  vendor_mappings[Lower(vendor)], instructions,
                                  1, <<>>, <<>>)
                     IN  /\ raised' = "none"
                         /\ heap' = << TranslatedProgram(vendor, r.udml_instructions) >>
                         /\ vendor_mappings' =
                               RegistryAfterTranslate(vendor_mappings, Lower(vendor),
                                                      instructions)
                         /\ log' = log
                               \o << LogEntry("INFO",
                                        "Translating {len(instructions)} instructions from {vendor}",
                                        <<Len(instructions), vendor>>) >>
                               \o r.logged
                               \o << LogEntry("INFO",
                                        "Translation complete: {len(udml_instructions)} UDML instructions",
                                        <<Len(r.udml_instructions)>>) >>
    /\ UNCHANGED << report, exported, calls, passes, opt_in, origins, threads >>

------------------------------------------------------------------------------
(* Programs a caller builds directly with the dataclass constructors.       *)

InstructionPool ==
    { UDMLInstruction("LOAD",  <<"a">>, "rockwell", "XIO", 0,
                      { <<"negated", TRUE>> }, Some(<<"load a">>)),
      UDMLInstruction("LOAD",  <<>>, "mitsubishi", "LD", 2, {}, None),
      UDMLInstruction("STORE", <<"b">>, "siemens", "T", 4, {}, Some(<<"store b">>)),
      UDMLInstruction("STORE", <<>>, "siemens", "=", 6, {}, None),
      UDMLInstruction("NOP",   <<>>, "ls", "FOO", 8,
                      { <<"warning", "unmapped_instruction">> },
                      Some(<<"Unknown: ", "FOO">>)),
      UDMLInstruction("MOVE",  <<"c", "d">>, "omron", "MOV", 10, {}, None),
      UDMLInstruction("CALL",  <<"FC1">>, "siemens", "CALL", 12, {}, None),
      UDMLInstruction("RET",   <<>>, "siemens", "BE", 14, {}, None),
      UDMLInstruction("JZ",    <<"L1">>, "siemens", "JCN", 16, {}, None),
      UDMLInstruction("JNZ",   <<"L2">>, "siemens", "JC", 18, {}, None),
      UDMLInstruction("JMP",   <<"L3">>, "siemens", "JU", 20, {}, None) }

\* Programs of calls and returns only, long enough to nest and unwind.
CallRetPool == { inst \in InstructionPool : inst.opcode \in { "CALL", "RET" } }

\* The instructions of the pool but the two jumps that the optimizer and
\* the analyzer treat as they treat JZ and RET.
RewritePool == { inst \in InstructionPool : inst.opcode \notin { "JNZ", "JMP" } }

\* The control-flow instructions of the pool.
ControlPool ==
    { inst \in InstructionPool : inst.opcode \in { "CALL", "RET", "JZ", "JNZ", "JMP" } }

InstructionLists ==
    SeqsUpTo(RewritePool, MaxLen) \cup SeqsUpTo(ControlPool, MaxLen)
        \cup SeqsUpTo(CallRetPool, MaxNestLen)

\* UDMLProgram(...) called by the caller itself, in place of translate.
Construct ==
    /\ last = "init"
    /\ \E instructions \in InstructionLists :
          heap' = << UDMLProgram(<<"manual">>, "manual", instructions, {}, <<>>, {}) >>
    /\ last' = "construct"
    /\ raised' = "none"
    /\ UNCHANGED << vendor_mappings, report, exported, log, calls, passes, opt_in, origins,
                    tr_vendor, tr_input, threads >>

------------------------------------------------------------------------------
(* optimize.  The cursor i is the code's 0-based index.                     *)

\* A variant of NopRule that keeps a NOP carrying a warning marker.
NopRuleUnmarkedOnly(inst) ==
    inst.opcode = "NOP" /\ <<"warning", "unmapped_instruction">> \notin inst.metadata

\* Rule A: if inst.opcode == UDMLOpcode.NOP
NopRule(inst) == inst.opcode = "NOP"

\* A variant of FusionRule that does not test the opcode after the LOAD.
FusionRuleAnySuccessor(instructions, i) ==
    /\ i < Len(instructions) - 1
    /\ instructions[i + 1].opcode = "LOAD"

\* Rule B: the condition of the LOAD + STORE fusion at cursor i.
FusionRule(instructions, i) ==
    /\ i < Len(instructions) - 1
    /\ instructions[i + 1].opcode = "LOAD"
    /\ instructions[i + 2].opcode = "STORE"

\* operands[0] of either instruction raises IndexError on an empty list.
FusionRaises(ld, st) == Len(ld.operands) = 0 \/ Len(st.operands) = 0

\* A variant of MoveInstruction that takes the provenance of the STORE.
MoveInstructionFromStore(ld, st) ==
    UDMLInstruction("MOVE", << ld.operands[1], st.operands[1] >>,
                    st.source_vendor, "OPTIMIZED", st.address,
                    { <<"optimized", TRUE>> }, Some(<<"Combined LOAD+STORE">>))

\* A variant of MoveInstruction with the operands in the other order.
MoveInstructionSwapped(ld, st) ==
    UDMLInstruction("MOVE", << st.operands[1], ld.operands[1] >>,
                    ld.source_vendor, "OPTIMIZED", ld.address,
                    { <<"optimized", TRUE>> }, Some(<<"Combined LOAD+STORE">>))

\* The MOVE built from the LOAD ld and the STORE st.
MoveInstruction(ld, st) ==
    UDMLInstruction("MOVE", << ld.operands[1], st.operands[1] >>,
                    ld.source_vendor, "OPTIMIZED", ld.address,
                    { <<"optimized", TRUE>> }, Some(<<"Combined LOAD+STORE">>))

\* A variant of Emit that inserts at the front of the list.
EmitFront(optimized_instructions, inst) == << inst >> \o optimized_instructions

\* optimized_instructions.append(inst)
Emit(optimized_instructions, inst) == Append(optimized_instructions, inst)

\* A variant of OptimizeLoop that measures adjacency in the list being built:
\* a STORE that follows an emitted LOAD is fused with it, whatever NOPs the
\* input had between them.
RECURSIVE OptimizeLoopOutputAdjacent(_, _, _, _)
OptimizeLoopOutputAdjacent(instructions, i, optimized_instructions, orig) ==
    LET n == Len(optimized_instructions) IN
    IF ~(i < Len(instructions))
        THEN [ raised |-> "none", optimized_instructions |-> optimized_instructions,
               origins |-> orig ]
    ELSE IF instructions[i + 1].opcode = "NOP"
        THEN OptimizeLoopOutputAdjacent(instructions, i + 1, optimized_instructions, orig)
    ELSE IF /\ instructions[i + 1].opcode = "STORE"
            /\ n > 0
            /\ optimized_instructions[n].opcode = "LOAD"
        THEN IF \/ Len(optimized_instructions[n].operands) = 0
                \/ Len(instructions[i + 1].operands) = 0
                THEN [ raised |-> "IndexError",
                       optimized_instructions |-> optimized_instructions,
                       origins |-> orig ]
                ELSE OptimizeLoopOutputAdjacent(instructions, i + 1,
                         [ optimized_instructions EXCEPT ![n] =
                             UDMLInstruction("MOVE",
                                 << optimized_instructions[n].operands[1],
                                    instructions[i + 1].operands[1] >>,
                                 optimized_instructions[n].source_vendor, "OPTIMIZED",
                                 optimized_instructions[n].address,
                                 { <<"optimized", TRUE>> },
                                 Some(<<"Combined LOAD+STORE">>)) ],
                         [ orig EXCEPT ![n] = << orig[n][1], i >> ])
    ELSE OptimizeLoopOutputAdjacent(instructions, i + 1,
             Append(optimized_instructions, instructions[i + 1]),
             Append(orig, << i >>))

\* A variant of OptimizeLoop that skips a NOP only while it has skipped or
\* fused nothing yet in this pass (the cursor equals the output length).
RECURSIVE OptimizeLoopOneNop(_, _, _, _)
OptimizeLoopOneNop(instructions, i, optimized_instructions, orig) ==
    IF ~(i < Len(instructions))
        THEN [ raised |-> "none", optimized_instructions |-> optimized_instructions,
               origins |-> orig ]
    ELSE IF NopRule(instructions[i + 1]) /\ i = Len(optimized_instructions)
        THEN OptimizeLoopOneNop(instructions, i + 1, optimized_instructions, orig)
    ELSE IF FusionRule(instructions, i)
        THEN IF FusionRaises(instructions[i + 1], instructions[i + 2])
                THEN [ raised |-> "IndexError",
                       optimized_instructions |-> optimized_instructions,
                       origins |-> orig ]
                ELSE OptimizeLoopOneNop(instructions, i + 2,
                         Emit(optimized_instructions,
                              MoveInstruction(instructions[i + 1], instructions[i + 2])),
                         Append(orig, << i, i + 1 >>))
    ELSE OptimizeLoopOneNop(instructions, i + 1,
             Emit(optimized_instructions, instructions[i + 1]),
             Append(orig, << i >>))

\* The while loop of optimize from cursor i on, with optimized_instructions
\* built so far; origins records, for each instruction appended, the input
\* indices it stands for.
RECURSIVE OptimizeLoop(_, _, _, _)
OptimizeLoop(instructions, i, optimized_instructions, orig) ==
    IF ~(i < Len(instructions))
        THEN [ raised |-> "none", optimized_instructions |-> optimized_instructions,
               origins |-> orig ]
    ELSE IF NopRule(instructions[i + 1])
        THEN OptimizeLoop(instructions, i + 1, optimized_instructions, orig)
    ELSE IF FusionRule(instructions, i)
        THEN IF FusionRaises(instructions[i + 1], instructions[i + 2])
                THEN [ raised |-> "IndexError",
                       optimized_instructions |-> optimized_instructions,
                       origins |-> orig ]
                ELSE OptimizeLoop(instructions, i + 2,
                         Emit(optimized_instructions,
                              MoveInstruction(instructions[i + 1], instructions[i + 2])),
                         Append(orig, << i, i + 1 >>))
    ELSE OptimizeLoop(instructions, i + 1,
             Emit(optimized_instructions, instructions[i + 1]),
             Append(orig, << i >>))

\* optimize(program) on the caller's Program: program.instructions is
\* assigned only when the loop has run to its end.  The caller optimizes
\* before it exports: an exported Program is not transformed further.
\* A variant of AssignInstructions that also marks the Program as optimized.
AssignInstructionsMarking(p, optimized_instructions) ==
    [ p EXCEPT !.instructions = optimized_instructions,
               !.metadata = @ \cup { << "optimized", TRUE >> } ]

\* A variant of AssignInstructions that leaves the passed Program as it was
\* (the optimized sequence would go to a fresh Program).
AssignInstructionsToCopy(p, optimized_instructions) == p

\* program.instructions = optimized_instructions: the passed Program object
\* itself receives the optimized list, and is the object returned.
AssignInstructions(p, optimized_instructions) ==
    [ p EXCEPT !.instructions = optimized_instructions ]

Optimize ==
    /\ heap # <<>>
    /\ exported = None
    /\ calls < MaxPasses
    /\ calls' = calls + 1
    /\ LET r == OptimizeLoop(program.instructions, 0, <<>>, <<>>)
       IN  /\ last' = "optimize"
           /\ opt_in' = program.instructions
           /\ raised' = r.raised
           /\ IF r.raised = "none"
                 THEN /\ heap' = << AssignInstructions(program, r.optimized_instructions) >>
                      /\ origins' = r.origins
                      /\ passes' = passes + 1
                      /\ log' = log
                            \o << LogEntry("INFO", "Optimizing UDML program", <<>>),
                                  LogEntry("INFO",
                                      "Optimization complete: {len(optimized_instructions)} instructions",
                                      << Len(r.optimized_instructions) >>) >>
                 ELSE /\ heap' = heap
                      /\ origins' = <<>>
                      /\ passes' = passes
                      /\ log' = Append(log, LogEntry("INFO", "Optimizing UDML program", <<>>))
    /\ UNCHANGED << vendor_mappings, report, exported, tr_vendor, tr_input, threads >>

------------------------------------------------------------------------------
(* analyze_complexity.                                                      *)

Max(a, b) == IF a > b THEN a ELSE b

\* A variant of DecisionOpcodes that counts every jump.
DecisionOpcodesWithJMP == { "JZ", "JNZ", "CALL", "JMP" }

\* A variant of OpcodeCounts that stores 1 instead of adding 1.
OpcodeCountsNoAccumulate(instructions) ==
    [ op \in { instructions[k].opcode : k \in 1..Len(instructions) } |-> 1 ]

\* A variant of NestingLoop whose RET decrements without the floor at 0.
RECURSIVE NestingLoopNoFloor(_, _, _, _)
NestingLoopNoFloor(instructions, k, max_depth, current_depth) ==
    IF k > Len(instructions) THEN max_depth
    ELSE IF instructions[k].opcode = "CALL"
        THEN NestingLoopNoFloor(instructions, k + 1,
                                Max(max_depth, current_depth + 1), current_depth + 1)
    ELSE IF instructions[k].opcode = "RET"
        THEN NestingLoopNoFloor(instructions, k + 1, max_depth, current_depth - 1)
    ELSE NestingLoopNoFloor(instructions, k + 1, max_depth, current_depth)

\* The opcode_counts dict: each opcode that occurs, with its count.
OpcodeCounts(instructions) ==
    [ op \in { instructions[k].opcode : k \in 1..Len(instructions) } |->
        Cardinality({ k \in 1..Len(instructions) : instructions[k].opcode = op }) ]

DecisionOpcodes == { "JZ", "JNZ", "CALL" }

CalculateCyclomaticComplexity(instructions) ==
    Cardinality({ k \in 1..Len(instructions) :
                    instructions[k].opcode \in DecisionOpcodes }) + 1

\* The for loop of _calculate_nesting_depth from instruction k on.
RECURSIVE NestingLoop(_, _, _, _)
NestingLoop(instructions, k, max_depth, current_depth) ==
    IF k > Len(instructions) THEN max_depth
    ELSE IF instructions[k].opcode = "CALL"
        THEN NestingLoop(instructions, k + 1,
                         Max(max_depth, current_depth + 1), current_depth + 1)
    ELSE IF instructions[k].opcode = "RET"
        THEN NestingLoop(instructions, k + 1, max_depth, Max(0, current_depth - 1))
    ELSE NestingLoop(instructions, k + 1, max_depth, current_depth)

CalculateNestingDepth(instructions) == NestingLoop(instructions, 1, 0, 0)

AnalyzeComplexity(p) ==
    [ total_instructions    |-> Len(p.instructions),
      opcode_distribution   |-> OpcodeCounts(p.instructions),
      cyclomatic_complexity |-> CalculateCyclomaticComplexity(p.instructions),
      max_nesting_depth     |-> CalculateNestingDepth(p.instructions) ]

\* analyze_complexity(program) on the caller's Program.
\* A variant of ProgramAfterAnalyze whose loops consume the list they walk.
ProgramAfterAnalyzeConsuming(p) == [ p EXCEPT !.instructions = <<>> ]

\* The Program after analyze_complexity: the three loops iterate over
\* program.instructions and read inst.opcode; nothing is assigned to the
\* Program or to an instruction.
ProgramAfterAnalyze(p) == p

\* analyze_complexity(program); a caller may call it again at once.
Analyze ==
    /\ heap # <<>>
    /\ report' = Some(AnalyzeComplexity(program))
    /\ heap' = << ProgramAfterAnalyze(program) >>
    /\ last' = "analyze"
    /\ raised' = "none"
    /\ UNCHANGED << vendor_mappings, exported, log, calls, passes, opt_in, origins,
                    tr_vendor, tr_input, threads >>

------------------------------------------------------------------------------
(* to_dict and export_json.                                                 *)

\* UDMLOpcode member -> its value (opcode.value).
UDMLOpcodeValue ==
    ("LOAD" :> "LOAD") @@ ("STORE" :> "STORE") @@ ("MOVE" :> "MOVE") @@
    ("AND" :> "AND") @@ ("OR" :> "OR") @@ ("XOR" :> "XOR") @@ ("NOT" :> "NOT") @@
    ("EQ" :> "EQ") @@ ("NE" :> "NE") @@ ("GT" :> "GT") @@ ("LT" :> "LT") @@
    ("GE" :> "GE") @@ ("LE" :> "LE") @@
    ("ADD" :> "ADD") @@ ("SUB" :> "SUB") @@ ("MUL" :> "MUL") @@ ("DIV" :> "DIV") @@
    ("MOD" :> "MOD") @@
    ("TON" :> "TON") @@ ("TOF" :> "TOF") @@ ("TP" :> "TP") @@ ("CTU" :> "CTU") @@
    ("CTD" :> "CTD") @@ ("CTUD" :> "CTUD") @@
    ("CALL" :> "CALL") @@ ("RET" :> "RET") @@ ("JMP" :> "JMP") @@ ("JZ" :> "JZ") @@
    ("JNZ" :> "JNZ") @@
    ("NOP" :> "NOP") @@ ("SET" :> "SET") @@ ("RESET" :> "RESET")

\* A variant of InstructionToDict that writes the mnemonic under source_vendor.
InstructionToDictWrongVendor(inst) ==
    [ opcode             |-> UDMLOpcodeValue[inst.opcode],
      operands           |-> inst.operands,
      source_vendor      |-> inst.source_instruction,
      source_instruction |-> inst.source_instruction,
      address            |-> inst.address,
      metadata           |-> inst.metadata,
      comment            |-> inst.comment ]

\* UDMLInstruction.to_dict
InstructionToDict(inst) ==
    [ opcode             |-> UDMLOpcodeValue[inst.opcode],
      operands           |-> inst.operands,
      source_vendor      |-> inst.source_vendor,
      source_instruction |-> inst.source_instruction,
      address            |-> inst.address,
      metadata           |-> inst.metadata,
      comment            |-> inst.comment ]

\* A variant of ProgramToDict that counts the instructions other than NOP.
ProgramToDictCountNonNop(p) ==
    [ program_name      |-> p.program_name,
      source_vendor     |-> p.source_vendor,
      instruction_count |-> Cardinality({ k \in 1..Len(p.instructions) :
                                            p.instructions[k].opcode # "NOP" }),
      instructions      |-> [ k \in 1..Len(p.instructions) |->
                                InstructionToDict(p.instructions[k]) ],
      global_variables  |-> p.global_variables,
      functions         |-> p.functions,
      metadata          |-> p.metadata ]

\* UDMLProgram.to_dict
ProgramToDict(p) ==
    [ program_name      |-> p.program_name,
      source_vendor     |-> p.source_vendor,
      instruction_count |-> Len(p.instructions),
      instructions      |-> [ k \in 1..Len(p.instructions) |->
                                InstructionToDict(p.instructions[k]) ],
      global_variables  |-> p.global_variables,
      functions         |-> p.functions,
      metadata          |-> p.metadata ]

\* export_json(program, filepath) on the caller's Program, for a Program
\* whose current content the caller has not exported yet.
Export ==
    /\ heap # <<>>
    /\ exported # Some(ProgramToDict(program))
    /\ exported' = Some(ProgramToDict(program))
    /\ last' = "export"
    /\ raised' = "none"
    /\ log' = Append(log, LogEntry("INFO", "UDML program exported to {filepath}",
                                   << "program.json" >>))
    /\ UNCHANGED << vendor_mappings, heap, report, calls, passes, opt_in, origins,
                    tr_vendor, tr_input, threads >>

------------------------------------------------------------------------------
(* The translator after UDMLTranslator(), and its caller's calls.           *)

Init ==
    /\ vendor_mappings = InitialVendorMappings
    /\ heap = <<>>
    /\ last = "init"
    /\ raised = "none"
    /\ report = None
    /\ exported = None
    /\ log = << LogEntry("INFO", "UDML Translator initialized", <<>>) >>
    /\ calls = 0
    /\ passes = 0
    /\ opt_in = <<>>
    /\ origins = <<>>
    /\ tr_vendor = None
    /\ tr_input = <<>>
    /\ threads = <<>>

Next == Translate \/ Construct \/ Optimize \/ Analyze \/ Export

Spec == Init /\ [][Next]_vars

------------------------------------------------------------------------------
(* Two callers at once.  Each caller makes one call on the one translator;  *)
(* the calls advance one statement group at a time, in any order.  The      *)
(* callers share the registry and the logger; a caller that optimizes or    *)
(* analyzes holds a Program object of its own, heap[ref].                   *)

MaxConcLen == 2

Threads == { 1, 2 }

ConcVendors == { "siemens", "SIEMENS", "abb" }

ConcRecordPool ==
    { Record("L",   AllAttrs, <<"MW0">>, 0, Some(<<"in">>)),
      Record("FOO", {"operands"}, <<"X2">>, 0, None) }

ConcOptimizePool ==
    { UDMLInstruction("LOAD",  <<"a">>, "siemens", "L", 0, {}, None),
      UDMLInstruction("STORE", <<"b">>, "siemens", "T", 2, {}, None),
      UDMLInstruction("NOP",   <<>>, "siemens", "FOO", 4,
                      { <<"warning", "unmapped_instruction">> },
                      Some(<<"Unknown: ", "FOO">>)) }

\* A LOAD without operands directly before a STORE: optimize raises on it.
ConcRaisingList ==
    << UDMLInstruction("LOAD",  <<>>, "mitsubishi", "LD", 0, {}, None),
       UDMLInstruction("STORE", <<"b">>, "siemens", "T", 2, {}, None) >>

ConcAnalyzePool ==
    { UDMLInstruction("CALL", <<"f">>, "siemens", "CALL", 0, {}, None),
      UDMLInstruction("RET",  <<>>, "manual", "RET", 2, {}, None) }

\* A call a caller makes: the method, and its arguments (vendor and records
\* for translate, the Program for optimize and analyze_complexity).
Call(op, vendor, records, arg) ==
    [ op |-> op, vendor |-> vendor, records |-> records, arg |-> arg ]

ConcCalls ==
    { Call("translate", v, r, None) :
          v \in ConcVendors, r \in SeqsUpTo(ConcRecordPool, MaxConcLen) }
    \cup { Call("optimize", "", <<>>, Some(UDMLProgram(<<"manual">>, "manual", l, {}, <<>>, {}))) :
          l \in SeqsUpTo(ConcOptimizePool, MaxConcLen) \cup { ConcRaisingList } }
    \cup { Call("analyze", "", <<>>, Some(UDMLProgram(<<"manual">>, "manual", l, {}, <<>>, {}))) :
          l \in SeqsUpTo(ConcAnalyzePool, MaxConcLen) }

\* The Program objects a call's arguments bring to the heap.
ProgramsOf(c) == IF c.arg = None THEN <<>> ELSE << CHOOSE p \in c.arg : TRUE >>

\* The frame of a call at entry: pc is the next statement group, ref the heap
\* index of the Program it holds (0: none), and the locals of the methods:
\* i (the loop cursor, 0-based), acc (udml_instructions / optimized_instructions),
\* opcode_counts, raised and the value returned.
Frame(c, ref) ==
    [ op |-> c.op, vendor |-> c.vendor, records |-> c.records, arg |-> c.arg,
      pc |-> "call", ref |-> ref, i |-> 0, acc |-> <<>>,
      opcode_counts |-> [ op \in {} |-> 0 ], raised |-> "none", returned |-> None ]

InitConc ==
    /\ vendor_mappings = InitialVendorMappings
    /\ \E c1 \in ConcCalls, c2 \in ConcCalls :
          /\ heap = ProgramsOf(c1) \o ProgramsOf(c2)
          /\ threads = << Frame(c1, IF c1.arg = None THEN 0 ELSE 1),
                          Frame(c2, IF c2.arg = None THEN 0
                                    ELSE Len(ProgramsOf(c1)) + 1) >>
    /\ last = "init"
    /\ raised = "none"
    /\ report = None
    /\ exported = None
    /\ log = << LogEntry("INFO", "UDML Translator initialized", <<>>) >>
    /\ calls = 0
    /\ passes = 0
    /\ opt_in = <<>>
    /\ origins = <<>>
    /\ tr_vendor = None
    /\ tr_input = <<>>

\* What no step of a concurrent call writes.
ConcUnchanged ==
    UNCHANGED << last, raised, report, exported, calls, passes, opt_in, origins,
                 tr_vendor, tr_input >>

\* translate up to the loop: the vendor check, the first logging call.
TranslateEnter(t) ==
    LET f == threads[t] IN
    /\ f.op = "translate" /\ f.pc = "call"
    /\ IF UnsupportedVendor(vendor_mappings, f.vendor)
          THEN /\ threads' = [ threads EXCEPT ![t].pc = "done", ![t].raised = "ValueError" ]
               /\ log' = log
       ELSE IF Lower(f.vendor) \notin DOMAIN vendor_mappings
          THEN /\ threads' = [ threads EXCEPT ![t].pc = "done", ![t].raised = "KeyError" ]
               /\ log' = Append(log, LogEntry("INFO",
                             "Translating {len(instructions)} instructions from {vendor}",
                             <<Len(f.records), f.vendor>>))
          ELSE /\ threads' = [ threads EXCEPT ![t].pc = "loop" ]
               /\ log' = Append(log, LogEntry("INFO",
                             "Translating {len(instructions)} instructions from {vendor}",
                             <<Len(f.records), f.vendor>>))
    /\ UNCHANGED << vendor_mappings, heap >>
    /\ ConcUnchanged

\* One iteration of the for loop of translate: mapping is the registry's
\* table itself, read through the reference at each lookup.
TranslateIterate(t) ==
    LET f == threads[t]
        vendor_lower == Lower(f.vendor)
    IN  /\ f.op = "translate" /\ f.pc = "loop"
        /\ f.i < Len(f.records)
        /\ threads' = [ threads EXCEPT
                          ![t].i = f.i + 1,
                          ![t].acc = Append(f.acc,
                               TranslateInstruction(vendor_lower,
                                   vendor_mappings[vendor_lower], f.records[f.i + 1])) ]
        /\ log' = log \o TranslateInstructionLog(vendor_lower,
                              vendor_mappings[vendor_lower], f.records[f.i + 1])
        /\ UNCHANGED << vendor_mappings, heap >>
        /\ ConcUnchanged

\* translate after the loop: the new Program object, the last logging call.
TranslateReturn(t) ==
    LET f == threads[t] IN
    /\ f.op = "translate" /\ f.pc = "loop"
    /\ ~(f.i < Len(f.records))
    /\ heap' = Append(heap, TranslatedProgram(f.vendor, f.acc))
    /\ threads' = [ threads EXCEPT ![t].pc = "done", ![t].ref = Len(heap) + 1,
                                   ![t].returned = Some(Len(heap) + 1) ]
    /\ log' = Append(log, LogEntry("INFO",
                  "Translation complete: {len(udml_instructions)} UDML instructions",
                  <<Len(f.acc)>>))
    /\ UNCHANGED vendor_mappings
    /\ ConcUnchanged

\* optimize up to the loop.
OptimizeEnter(t) ==
    LET f == threads[t] IN
    /\ f.op = "optimize" /\ f.pc = "call"
    /\ threads' = [ threads EXCEPT ![t].pc = "loop", ![t].i = 0, ![t].acc = <<>> ]
    /\ log' = Append(log, LogEntry("INFO", "Optimizing UDML program", <<>>))
    /\ UNCHANGED << vendor_mappings, heap >>
    /\ ConcUnchanged

\* A variant of OptimizeIteration whose optimized_instructions is one list of
\* the translator, shared by every optimize call in progress.
OptimizeIterationSharedList(ths, t, instructions) ==
    LET f == ths[t]
        Shared(u, inst) ==
            IF ths[u].op = "optimize" /\ ths[u].pc = "loop"
                THEN Emit(ths[u].acc, inst) ELSE ths[u].acc
    IN  IF NopRule(instructions[f.i + 1])
            THEN [ ths EXCEPT ![t].i = f.i + 1 ]
        ELSE IF FusionRule(instructions, f.i)
            THEN IF FusionRaises(instructions[f.i + 1], instructions[f.i + 2])
                    THEN [ ths EXCEPT ![t].pc = "done", ![t].raised = "IndexError" ]
                    ELSE [ u \in DOMAIN ths |->
                             [ ths[u] EXCEPT
                                 !.i = IF u = t THEN f.i + 2 ELSE @,
                                 !.acc = Shared(u, MoveInstruction(instructions[f.i + 1],
                                                                   instructions[f.i + 2])) ] ]
        ELSE [ u \in DOMAIN ths |->
                 [ ths[u] EXCEPT
                     !.i = IF u = t THEN f.i + 1 ELSE @,
                     !.acc = Shared(u, instructions[f.i + 1]) ] ]

\* One iteration of the while loop of optimize in caller t's frame: i and
\* optimized_instructions are locals of the call.
OptimizeIteration(ths, t, instructions) ==
    LET f == ths[t] IN
    IF NopRule(instructions[f.i + 1])
        THEN [ ths EXCEPT ![t].i = f.i + 1 ]
    ELSE IF FusionRule(instructions, f.i)
        THEN IF FusionRaises(instructions[f.i + 1], instructions[f.i + 2])
                THEN [ ths EXCEPT ![t].pc = "done", ![t].raised = "IndexError" ]
                ELSE [ ths EXCEPT
                         ![t].i = f.i + 2,
                         ![t].acc = Emit(f.acc, MoveInstruction(instructions[f.i + 1],
                                                                instructions[f.i + 2])) ]
    ELSE [ ths EXCEPT ![t].i = f.i + 1,
                      ![t].acc = Emit(f.acc, instructions[f.i + 1]) ]

\* while i < len(program.instructions): program.instructions is read from the
\* caller's Program object at each iteration.
OptimizeIterate(t) ==
    LET f == threads[t] IN
    /\ f.op = "optimize" /\ f.pc = "loop"
    /\ f.i < Len(heap[f.ref].instructions)
    /\ threads' = OptimizeIteration(threads, t, heap[f.ref].instructions)
    /\ UNCHANGED << vendor_mappings, heap, log >>
    /\ ConcUnchanged

\* optimize after the loop: the assignment to the caller's Program object,
\* the last logging call, return program.
OptimizeReturn(t) ==
    LET f == threads[t] IN
    /\ f.op = "optimize" /\ f.pc = "loop"
    /\ ~(f.i < Len(heap[f.ref].instructions))
    /\ heap' = [ heap EXCEPT ![f.ref] = AssignInstructions(@, f.acc) ]
    /\ threads' = [ threads EXCEPT ![t].pc = "done", ![t].returned = Some(f.ref) ]
    /\ log' = Append(log, LogEntry("INFO",
                  "Optimization complete: {len(optimized_instructions)} instructions",
                  << Len(f.acc) >>))
    /\ UNCHANGED vendor_mappings
    /\ ConcUnchanged

\* opcode_counts[opcode] = opcode_counts.get(opcode, 0) + 1
CountOpcode(opcode_counts, opcode) ==
    [ op \in DOMAIN opcode_counts \cup { opcode } |->
        IF op = opcode
            THEN (IF op \in DOMAIN opcode_counts THEN opcode_counts[op] ELSE 0) + 1
            ELSE opcode_counts[op] ]

\* One iteration of the for loop of analyze_complexity.
AnalyzeCount(t) ==
    LET f == threads[t] IN
    /\ f.op = "analyze" /\ f.pc = "call"
    /\ f.i < Len(heap[f.ref].instructions)
    /\ threads' = [ threads EXCEPT
                      ![t].i = f.i + 1,
                      ![t].opcode_counts =
                          CountOpcode(f.opcode_counts, heap[f.ref].instructions[f.i + 1].opcode) ]
    /\ UNCHANGED << vendor_mappings, heap, log >>
    /\ ConcUnchanged

\* analyze_complexity after the loop: the returned dict.
AnalyzeReturn(t) ==
    LET f == threads[t]
        instructions == heap[f.ref].instructions
    IN  /\ f.op = "analyze" /\ f.pc = "call"
        /\ ~(f.i < Len(instructions))
        /\ threads' = [ threads EXCEPT
                          ![t].pc = "done",
                          ![t].returned = Some(
                              [ total_instructions    |-> Len(instructions),
                                opcode_distribution   |-> f.opcode_counts,
                                cyclomatic_complexity |->
                                    CalculateCyclomaticComplexity(instructions),
                                max_nesting_depth     |->
                                    CalculateNestingDepth(instructions) ]) ]
        /\ UNCHANGED << vendor_mappings, heap, log >>
        /\ ConcUnchanged

NextConc ==
    \E t \in Threads :
        \/ TranslateEnter(t)
        \/ TranslateIterate(t)
        \/ TranslateReturn(t)
        \/ OptimizeEnter(t)
        \/ OptimizeIterate(t)
        \/ OptimizeReturn(t)
        \/ AnalyzeCount(t)
        \/ AnalyzeReturn(t)

SpecConc == InitConc /\ [][NextConc]_vars

------------------------------------------------------------------------------
(* Properties of optimize.                                                  *)

\* The last call was op and it returned.
Returned(op) == last = op /\ raised = "none"

Opcodes(instructions) ==
    [ k \in 1..Len(instructions) |-> instructions[k].opcode ]

\* Input index i (0-based) holds a LOAD, index i+1 a STORE, both with an operand.
FusablePairAt(instructions, i) ==
    /\ i + 2 <= Len(instructions)
    /\ instructions[i + 1].opcode = "LOAD"
    /\ instructions[i + 2].opcode = "STORE"
    /\ Len(instructions[i + 1].operands) >= 1
    /\ Len(instructions[i + 2].operands) >= 1

\* C1: optimize is idempotent: a second optimize, applied to the result of
\* a first one, returns an instruction sequence equal to its input.
C1_Idempotent ==
    (Returned("optimize") /\ passes >= 2) => program.instructions = opt_in

\* C2: every LOAD directly followed in the input by a STORE, both with an
\* operand, is replaced in the output optimize returns by exactly one MOVE
\* with operands [LOAD.operands[0], STORE.operands[0]]; no other output
\* instruction stands for that LOAD or that STORE; [LOAD a, STORE b] yields
\* the single instruction MOVE [a, b].
C2_Fusion ==
    Returned("optimize") =>
        /\ \A i \in 0..(Len(opt_in) - 2) :
              FusablePairAt(opt_in, i) =>
                 /\ Cardinality({ k \in DOMAIN origins : origins[k] = << i, i + 1 >> }) = 1
                 /\ \A k \in DOMAIN origins :
                       IF origins[k] = << i, i + 1 >>
                          THEN /\ program.instructions[k].opcode = "MOVE"
                               /\ program.instructions[k].operands =
                                     << opt_in[i + 1].operands[1],
                                        opt_in[i + 2].operands[1] >>
                          ELSE \A j \in DOMAIN origins[k] : origins[k][j] \notin { i, i + 1 }
        /\ (Len(opt_in) = 2 /\ FusablePairAt(opt_in, 0)) =>
              /\ Len(program.instructions) = 1
              /\ program.instructions[1].opcode = "MOVE"
              /\ program.instructions[1].operands =
                    << opt_in[1].operands[1], opt_in[2].operands[1] >>

\* C2 witness: optimize returned on [LOAD a, STORE b] with the one MOVE [a, b].
C2_Witness ==
    /\ Returned("optimize")
    /\ Len(opt_in) = 2
    /\ FusablePairAt(opt_in, 0)
    /\ opt_in[1].operands = << "a" >>
    /\ opt_in[2].operands = << "b" >>
    /\ Opcodes(program.instructions) = << "MOVE" >>
    /\ program.instructions[1].operands = << "a", "b" >>

\* C3: a LOAD and a STORE with one or more NOPs (and nothing else) between
\* them in the input are both passed through unchanged, next to each other,
\* by one optimize call; [LOAD a, NOP, STORE b] yields [LOAD a, STORE b].
C3_NoFusionAcrossNop ==
    Returned("optimize") =>
        /\ \A i, j \in 1..Len(opt_in) :
              ( /\ i + 1 < j
                /\ opt_in[i].opcode = "LOAD"
                /\ opt_in[j].opcode = "STORE"
                /\ \A m \in (i + 1)..(j - 1) : opt_in[m].opcode = "NOP" )
              => \E k \in 1..(Len(program.instructions) - 1) :
                    /\ origins[k] = << i - 1 >>
                    /\ program.instructions[k] = opt_in[i]
                    /\ origins[k + 1] = << j - 1 >>
                    /\ program.instructions[k + 1] = opt_in[j]
        /\ Opcodes(opt_in) = << "LOAD", "NOP", "STORE" >> =>
              program.instructions = << opt_in[1], opt_in[3] >>

\* C3 witness: optimize returned [LOAD a, STORE b] on [LOAD a, NOP, STORE b].
C3_Witness ==
    /\ Returned("optimize")
    /\ Opcodes(opt_in) = << "LOAD", "NOP", "STORE" >>
    /\ opt_in[1].operands = << "a" >>
    /\ opt_in[3].operands = << "b" >>
    /\ Opcodes(program.instructions) = << "LOAD", "STORE" >>

\* C4: the instruction sequence optimize returns holds no NOP.
C4_NoNopAfterOptimize ==
    Returned("optimize") =>
        \A k \in 1..Len(program.instructions) : program.instructions[k].opcode # "NOP"

\* C4 witness: optimize returned on an input with a NOP first, a NOP last
\* and a NOP directly after a LOAD, and kept the LOAD alone.
C4_Witness ==
    /\ Returned("optimize")
    /\ Opcodes(opt_in) = << "NOP", "LOAD", "NOP" >>
    /\ Opcodes(program.instructions) = << "LOAD" >>

\* C5: in the instruction sequence optimize returns, no LOAD is directly
\* followed by a STORE.
C5_NoLoadStoreInOutput ==
    Returned("optimize") =>
        \A k \in 1..(Len(program.instructions) - 1) :
            ~ ( /\ program.instructions[k].opcode = "LOAD"
                /\ program.instructions[k + 1].opcode = "STORE" )

\* C6: optimize never reorders: every output instruction is either an input
\* instruction copied field for field, or a MOVE standing for a LOAD/STORE
\* pair of the input, and the input positions the output instructions stand
\* for are strictly increasing along the output.
C6_NoReorder ==
    Returned("optimize") =>
        /\ Len(origins) = Len(program.instructions)
        /\ \A k \in 1..Len(program.instructions) :
              \/ /\ Len(origins[k]) = 1
                 /\ origins[k][1] \in 0..(Len(opt_in) - 1)
                 /\ program.instructions[k] = opt_in[origins[k][1] + 1]
              \/ /\ Len(origins[k]) = 2
                 /\ origins[k][1] \in 0..(Len(opt_in) - 2)
                 /\ origins[k][2] = origins[k][1] + 1
                 /\ opt_in[origins[k][1] + 1].opcode = "LOAD"
                 /\ opt_in[origins[k][2] + 1].opcode = "STORE"
                 /\ program.instructions[k].opcode = "MOVE"
                 /\ program.instructions[k].source_instruction = "OPTIMIZED"
        /\ \A k \in 1..(Len(program.instructions) - 1) :
              origins[k][Len(origins[k])] < origins[k + 1][1]

\* C6 witness: optimize returned [CALL, MOVE, RET]-shaped output, a fused
\* MOVE between two copied instructions (the input was longer than the output).
C6_Witness ==
    /\ Returned("optimize")
    /\ Opcodes(opt_in) = << "JZ", "LOAD", "STORE" >>
    /\ origins = << <<0>>, <<1, 2>> >>
    /\ program.instructions[1] = opt_in[1]
    /\ program.instructions[2].opcode = "MOVE"

\* C7: optimize and analyze_complexity return normally on every Program.
C7_NeverFails ==
    last \in { "optimize", "analyze" } => raised = "none"

------------------------------------------------------------------------------
(* Properties of translate.                                                 *)

\* The vendors the registry is seeded with, as the specification lists them.
RegisteredVendors == { "siemens", "mitsubishi", "rockwell", "ls", "omron" }

\* The negated mnemonic of each vendor that has one.
NegatedOf == { << "siemens", "AN" >>, << "mitsubishi", "ANI" >>, << "rockwell", "XIO" >> }

IsWarning(entry) == entry.level = "WARNING"

\* C8: translate with a vendor whose lower-cased form is not registered
\* fails with the unsupported-vendor error before it does anything else: no
\* Program exists afterwards, and nothing has been logged since construction
\* (no warning in particular), whatever the instruction list holds.
C8_UnsupportedVendor ==
    \A vendor \in tr_vendor :
        (last = "translate" /\ Lower(vendor) \notin RegisteredVendors) =>
            /\ raised = "ValueError"
            /\ heap = <<>>
            /\ Len(log) = 1
            /\ \A k \in 1..Len(log) : ~IsWarning(log[k])

\* C8 witness: translate failed for an unregistered vendor on a list that
\* holds an unmapped mnemonic.
C8_Witness ==
    /\ last = "translate"
    /\ tr_vendor = Some("ABB")
    /\ Len(tr_input) = MaxLen
    /\ \E k \in 1..Len(tr_input) : tr_input[k].mnemonic = "FOO"
    /\ raised = "ValueError"

\* C9: for a registered vendor translate returns, and every record whose
\* mnemonic is not a key of the vendor's table yields, at the record's
\* position, a NOP with no operands, metadata {warning: unmapped_instruction}
\* and the comment "Unknown: <mnemonic>"; the other records yield their
\* mapped opcode.
C9_UnknownMnemonic ==
    \A vendor \in tr_vendor :
        (last = "translate" /\ Lower(vendor) \in RegisteredVendors) =>
            /\ raised = "none"
            /\ heap # <<>>
            /\ Len(program.instructions) = Len(tr_input)
            /\ \A k \in 1..Len(tr_input) :
                  LET table == InitialVendorMappings[Lower(vendor)]
                      m == tr_input[k].mnemonic
                      inst == program.instructions[k]
                  IN  IF m \notin DOMAIN table
                         THEN /\ inst.opcode = "NOP"
                              /\ inst.operands = <<>>
                              /\ inst.metadata = { <<"warning", "unmapped_instruction">> }
                              /\ inst.comment = Some(<<"Unknown: ", m>>)
                         ELSE inst.opcode = table[m]

\* C9 witness: an unmapped record that carries operands, between two mapped
\* records, under a registered vendor.
C9_Witness ==
    /\ last = "translate"
    /\ tr_vendor = Some("LS")
    /\ Len(tr_input) = 3
    /\ tr_input[2].mnemonic = "FOO"
    /\ tr_input[2].operands = << "X2" >>
    /\ "operands" \in tr_input[2].attrs
    /\ Opcodes(program.instructions) = << "LOAD", "NOP", "STORE" >>

\* C10: for a registered vendor V and a single record whose mnemonic M is a
\* key of V's table, translate yields exactly one instruction, with the
\* opcode the table maps M to, and with metadata {negated: true} when M is
\* V's negated mnemonic (Siemens AN, Mitsubishi ANI, Rockwell XIO) and empty
\* metadata otherwise.
C10_MappedMnemonic ==
    \A vendor \in tr_vendor :
        ( /\ last = "translate"
          /\ Lower(vendor) \in RegisteredVendors
          /\ Len(tr_input) = 1
          /\ tr_input[1].mnemonic \in DOMAIN InitialVendorMappings[Lower(vendor)] )
        => /\ raised = "none"
           /\ Len(program.instructions) = 1
           /\ program.instructions[1].opcode =
                 InitialVendorMappings[Lower(vendor)][tr_input[1].mnemonic]
           /\ program.instructions[1].metadata =
                 IF << Lower(vendor), tr_input[1].mnemonic >> \in NegatedOf
                    THEN { <<"negated", TRUE>> }
                    ELSE {}

\* C10 witness: Siemens AN translated to one negated AND.
C10_Witness ==
    /\ last = "translate"
    /\ tr_vendor = Some("siemens")
    /\ Len(tr_input) = 1
    /\ tr_input[1].mnemonic = "AN"
    /\ Opcodes(program.instructions) = << "AND" >>
    /\ program.instructions[1].metadata = { <<"negated", TRUE>> }

------------------------------------------------------------------------------
(* Mnemonic matching, and properties of analyze_complexity.                 *)

\* C12: mnemonics are matched exactly: under a registered vendor a record
\* whose mnemonic is not a key of the vendor's table, though its upper-case
\* form is one, is not given that key's opcode: it becomes the NOP
\* placeholder with the unmapped-instruction warning.
C12_CaseSensitiveMnemonic ==
    \A vendor \in tr_vendor :
        (last = "translate" /\ Lower(vendor) \in RegisteredVendors) =>
            \A k \in 1..Len(tr_input) :
                LET table == InitialVendorMappings[Lower(vendor)]
                    m == tr_input[k].mnemonic
                IN  (m \notin DOMAIN table /\ Upper(m) \in DOMAIN table) =>
                        /\ program.instructions[k].opcode = "NOP"
                        /\ program.instructions[k].opcode # table[Upper(m)]
                        /\ <<"warning", "unmapped_instruction">>
                               \in program.instructions[k].metadata
                        /\ program.instructions[k].source_instruction = m

\* C12 witness: "And" under Mitsubishi, whose table has AND, became a NOP.
C12_Witness ==
    /\ last = "translate"
    /\ tr_vendor = Some("mitsubishi")
    /\ Len(tr_input) = 1
    /\ tr_input[1].mnemonic = "And"
    /\ "AND" \in DOMAIN MITSUBISHI_MAPPING
    /\ Opcodes(program.instructions) = << "NOP" >>

\* The report the last analyze_complexity call returned.
TheReport == CHOOSE r \in report : TRUE

\* The number of instructions with the opcode op.
CountOf(instructions, op) ==
    Cardinality({ k \in 1..Len(instructions) : instructions[k].opcode = op })

\* C13: cyclomatic_complexity is 1 plus the number of JZ, JNZ and CALL
\* instructions; an empty program reports 1.
C13_Cyclomatic ==
    Returned("analyze") =>
        /\ TheReport.cyclomatic_complexity =
              1 + CountOf(program.instructions, "JZ")
                + CountOf(program.instructions, "JNZ")
                + CountOf(program.instructions, "CALL")
        /\ program.instructions = <<>> => TheReport.cyclomatic_complexity = 1

\* C13 witness: a JMP, a RET and a JNZ report 2: only the JNZ counts.
C13_Witness ==
    /\ Returned("analyze")
    /\ Opcodes(program.instructions) = << "JMP", "RET", "JNZ" >>
    /\ TheReport.cyclomatic_complexity = 2

\* The value of the call counter after the first n instructions: 0 at the
\* start, one more after a CALL, one less but never below 0 after a RET.
RECURSIVE DepthAfter(_, _)
DepthAfter(instructions, n) ==
    IF n = 0 THEN 0
    ELSE LET before == DepthAfter(instructions, n - 1)
         IN  CASE instructions[n].opcode = "CALL" -> before + 1
               [] instructions[n].opcode = "RET"  -> IF before > 0 THEN before - 1 ELSE 0
               [] OTHER                           -> before

\* C14: max_nesting_depth is the largest value the call counter takes along
\* the instruction sequence; [RET, RET, CALL] yields 1 and
\* [CALL, CALL, RET, CALL, RET, RET] yields 2.
C14_NestingDepth ==
    Returned("analyze") =>
        /\ \A n \in 0..Len(program.instructions) :
              DepthAfter(program.instructions, n) <= TheReport.max_nesting_depth
        /\ \E n \in 0..Len(program.instructions) :
              DepthAfter(program.instructions, n) = TheReport.max_nesting_depth
        /\ Opcodes(program.instructions) = << "RET", "RET", "CALL" >> =>
              TheReport.max_nesting_depth = 1
        /\ Opcodes(program.instructions)
              = << "CALL", "CALL", "RET", "CALL", "RET", "RET" >> =>
              TheReport.max_nesting_depth = 2

\* C14 witness: the six-instruction example reported depth 2.
C14_Witness ==
    /\ Returned("analyze")
    /\ Opcodes(program.instructions) = << "CALL", "CALL", "RET", "CALL", "RET", "RET" >>
    /\ TheReport.max_nesting_depth = 2

\* The sum of the counts of a distribution.
RECURSIVE SumOver(_, _)
SumOver(dist, ops) ==
    IF ops = {} THEN 0
    ELSE LET op == CHOOSE o \in ops : TRUE
         IN  dist[op] + SumOver(dist, ops \ { op })

\* C15: total_instructions is the length of the instruction sequence, and
\* opcode_distribution has exactly the opcodes that occur as its keys, each
\* with its number of occurrences, so that its counts sum to
\* total_instructions.
C15_Distribution ==
    Returned("analyze") =>
        LET dist == TheReport.opcode_distribution IN
        /\ TheReport.total_instructions = Len(program.instructions)
        /\ DOMAIN dist = { op \in UDMLOpcode : CountOf(program.instructions, op) > 0 }
        /\ \A op \in DOMAIN dist : dist[op] = CountOf(program.instructions, op)
        /\ SumOver(dist, DOMAIN dist) = TheReport.total_instructions

\* C15 witness: an opcode occurring twice and another once.
C15_Witness ==
    /\ Returned("analyze")
    /\ Opcodes(program.instructions) = << "LOAD", "NOP", "LOAD" >>
    /\ TheReport.opcode_distribution = ("LOAD" :> 2) @@ ("NOP" :> 1)
    /\ TheReport.total_instructions = 3

------------------------------------------------------------------------------
(* Properties of the export.                                                *)

\* The object the last export_json call wrote.
TheExport == CHOOSE d \in exported : TRUE

\* C16: the exported object's instruction_count is the number of elements
\* of its instructions array, which is the length of the Program's
\* instruction sequence when it is exported.
C16_InstructionCount ==
    Returned("export") =>
        /\ TheExport.instruction_count = Len(TheExport.instructions)
        /\ TheExport.instruction_count = Len(program.instructions)

\* C16 witness: a translated Program, shortened by optimize, then exported.
C16_Witness ==
    /\ Returned("export")
    /\ tr_vendor # None
    /\ passes >= 1
    /\ Len(program.instructions) < Len(tr_input)
    /\ TheExport.instruction_count = Len(program.instructions)

\* Reading an exported object back, as the export schema describes it: the
\* opcode is the member whose value is the exported name, every other field
\* is taken as it is, and instruction_count is derived, not stored.
OpcodeByValue ==
    [ value \in { UDMLOpcodeValue[op] : op \in UDMLOpcode } |->
        CHOOSE op \in UDMLOpcode : UDMLOpcodeValue[op] = value ]

OpcodeOfValue(value) == OpcodeByValue[value]

\* Distinct opcodes are exported under distinct names.
OpcodeValuesDistinct ==
    \A a, b \in UDMLOpcode : a # b => UDMLOpcodeValue[a] # UDMLOpcodeValue[b]

ParseInstruction(d) ==
    UDMLInstruction(OpcodeOfValue(d.opcode), d.operands, d.source_vendor,
                    d.source_instruction, d.address, d.metadata, d.comment)

ParseProgram(d) ==
    UDMLProgram(d.program_name, d.source_vendor,
                [ k \in 1..Len(d.instructions) |-> ParseInstruction(d.instructions[k]) ],
                d.global_variables, d.functions, d.metadata)

------------------------------------------------------------------------------
(* Frame properties.                                                        *)

\* C18: in every state reached by any sequence of translate (returning or
\* raising), optimize, analyze_complexity and export calls, the registry
\* holds exactly the five vendor entries it was constructed with, each with
\* its table unchanged.
C18_RegistryReadOnly ==
    /\ DOMAIN vendor_mappings = { "siemens", "mitsubishi", "rockwell", "ls", "omron" }
    /\ vendor_mappings["siemens"] = SIEMENS_MAPPING
    /\ vendor_mappings["mitsubishi"] = MITSUBISHI_MAPPING
    /\ vendor_mappings["rockwell"] = ROCKWELL_MAPPING
    /\ vendor_mappings["ls"] = LS_MAPPING
    /\ vendor_mappings["omron"] = OMRON_MAPPING

\* C18 witness: translate met a mnemonic its table does not hold, and the
\* Program was then optimized, analyzed and exported.
C18_Witness ==
    /\ Returned("export")
    /\ tr_vendor = Some("Siemens")
    /\ \E k \in 1..Len(tr_input) : tr_input[k].mnemonic \notin DOMAIN SIEMENS_MAPPING
    /\ passes >= 1
    /\ report # None
    /\ vendor_mappings["siemens"] = SIEMENS_MAPPING

\* C19 as stated: after an optimize call the passed Program's instruction
\* sequence equals its sequence before the call.
C19_PassedProgramUnmodified ==
    last = "optimize" => program.instructions = opt_in

\* The input holds a LOAD directly followed by a STORE.
HasLoadStorePair(instructions) ==
    \E k \in 1..(Len(instructions) - 1) :
        instructions[k].opcode = "LOAD" /\ instructions[k + 1].opcode = "STORE"

HasNop(instructions) ==
    \E k \in 1..Len(instructions) : instructions[k].opcode = "NOP"

\* C19 amended: optimize rewrites the passed Program in place.  After a call
\* that returned, the passed Program's sequence equals its sequence before
\* the call exactly when that sequence held no NOP and no LOAD directly
\* followed by a STORE; after a call that raised it is as it was before.
C19_RewritesInPlace ==
    /\ Returned("optimize") =>
          ( program.instructions = opt_in
              <=> ~ HasNop(opt_in) /\ ~ HasLoadStorePair(opt_in) )
    /\ (last = "optimize" /\ raised # "none") => program.instructions = opt_in

\* C19 witness: a returned call whose passed Program now holds a shorter
\* sequence than it held before the call.
C19_Witness ==
    /\ Returned("optimize")
    /\ HasNop(opt_in)
    /\ Len(program.instructions) < Len(opt_in)
    /\ ~ HasNop(program.instructions)

------------------------------------------------------------------------------
(* Properties of concurrent calls (SpecConc).                               *)

\* Vendor strings that are one name in several letter cases.
CaseClasses ==
    { { "siemens", "Siemens", "SIEMENS" }, { "rockwell", "ROCKWELL" },
      { "ls", "LS" }, { "abb", "ABB" } }

DiffersOnlyInCase(v, w) ==
    v # w /\ \E class \in CaseClasses : v \in class /\ w \in class

NamesRegisteredVendor(v) ==
    \E class \in CaseClasses : v \in class /\ class \cap RegisteredVendors # {}

\* Caller t's call is over (it returned or raised).
Done(t) == threads[t].pc = "done"

\* C11: two translate calls on the same records, with vendor strings that
\* differ only in letter case and name a registered vendor, both return, and
\* the Programs they return hold equal instruction sequences.
C11_VendorCaseInsensitive ==
    \A a \in DOMAIN threads, b \in DOMAIN threads :
        ( /\ threads[a].op = "translate" /\ Done(a)
          /\ threads[b].op = "translate" /\ Done(b)
          /\ DiffersOnlyInCase(threads[a].vendor, threads[b].vendor)
          /\ NamesRegisteredVendor(threads[a].vendor)
          /\ threads[a].records = threads[b].records )
        => /\ threads[a].raised = "none"
           /\ threads[b].raised = "none"
           /\ heap[threads[a].ref].instructions = heap[threads[b].ref].instructions

\* C11 witness: "siemens" and "SIEMENS" on the same two records, one of them
\* with a mnemonic the table does not hold.
C11_Witness ==
    /\ threads # <<>>
    /\ Done(1) /\ Done(2)
    /\ threads[1].op = "translate" /\ threads[1].vendor = "siemens"
    /\ threads[2].op = "translate" /\ threads[2].vendor = "SIEMENS"
    /\ threads[1].records = threads[2].records
    /\ Len(threads[1].records) = 2
    /\ threads[1].raised = "none" /\ threads[2].raised = "none"
    /\ Opcodes(heap[threads[1].ref].instructions) = << "LOAD", "NOP" >>
    /\ heap[threads[1].ref].instructions = heap[threads[2].ref].instructions
    /\ heap[threads[1].ref].source_vendor # heap[threads[2].ref].source_vendor

\* The Program a caller passed to optimize or analyze_complexity.
ArgOf(t) == CHOOSE p \in threads[t].arg : TRUE

\* The outcome of caller t's call when it runs alone on its arguments.
AloneTranslate(t) ==
    LET f == threads[t] IN
    IF UnsupportedVendor(InitialVendorMappings, f.vendor)
        THEN f.raised = "ValueError" /\ f.returned = None
        ELSE /\ f.raised = "none"
             /\ f.returned = Some(f.ref)
             /\ heap[f.ref] =
                   TranslatedProgram(f.vendor,
                       TranslateLoop(Lower(f.vendor), InitialVendorMappings[Lower(f.vendor)],
                                     f.records, 1, <<>>, <<>>).udml_instructions)

AloneOptimize(t) ==
    LET f == threads[t]
        r == OptimizeLoop(ArgOf(t).instructions, 0, <<>>, <<>>)
    IN  /\ f.raised = r.raised
        /\ IF r.raised = "none"
              THEN /\ f.returned = Some(f.ref)
                   /\ heap[f.ref] =
                         [ ArgOf(t) EXCEPT !.instructions = r.optimized_instructions ]
              ELSE /\ f.returned = None
                   /\ heap[f.ref] = ArgOf(t)

AloneAnalyze(t) ==
    /\ threads[t].raised = "none"
    /\ threads[t].returned = Some(AnalyzeComplexity(ArgOf(t)))
    /\ heap[threads[t].ref] = ArgOf(t)

\* C20: however the steps of the two calls are interleaved, a call that is
\* over has the outcome it has when run alone on its arguments, a Program a
\* call still works on is as its caller passed it, and the registry is as
\* constructed.
C20_NoCoordination ==
    /\ vendor_mappings = InitialVendorMappings
    /\ \A t \in DOMAIN threads :
          /\ (Done(t) /\ threads[t].op = "translate") => AloneTranslate(t)
          /\ (Done(t) /\ threads[t].op = "optimize") => AloneOptimize(t)
          /\ (Done(t) /\ threads[t].op = "analyze") => AloneAnalyze(t)
          /\ (~Done(t) /\ threads[t].arg # None) => heap[threads[t].ref] = ArgOf(t)

\* C20 witness: an optimize call and a translate call, both over, whose
\* steps alternated (the logging calls show the order), the first having
\* fused a LOAD and a STORE, the second having met an unmapped mnemonic.
C20_Witness ==
    /\ threads # <<>>
    /\ Done(1) /\ Done(2)
    /\ threads[1].op = "optimize" /\ threads[2].op = "translate"
    /\ threads[1].raised = "none" /\ threads[2].raised = "none"
    /\ Opcodes(ArgOf(1).instructions) = << "LOAD", "STORE" >>
    /\ Opcodes(heap[threads[1].ref].instructions) = << "MOVE" >>
    /\ Opcodes(heap[threads[2].ref].instructions) = << "NOP", "LOAD" >>
    /\ Len(log) = 6
    /\ log[2].fmt = "Optimizing UDML program"
    /\ log[3].level = "INFO" /\ log[3].args = << 2, "SIEMENS" >>
    /\ log[4].level = "WARNING"
    /\ log[5].fmt = "Optimization complete: {len(optimized_instructions)} instructions"
    /\ log[6].args = << 2 >>

------------------------------------------------------------------------------
(* Further properties of translate.                                         *)

\* C22: for a registered vendor translate returns a Program with as many
\* instructions as the input has records, and the instruction at each
\* position is the translation of the record at that position.
C22_OneToOne ==
    \A vendor \in tr_vendor :
        (last = "translate" /\ Lower(vendor) \in RegisteredVendors) =>
            /\ raised = "none"
            /\ Len(program.instructions) = Len(tr_input)
            /\ \A k \in 1..Len(tr_input) :
                  program.instructions[k] =
                      TranslateInstruction(Lower(vendor),
                          InitialVendorMappings[Lower(vendor)], tr_input[k])

\* C22 witness: three records, the first and the last with a mnemonic the
\* table does not hold, translated to three instructions in the same order.
C22_Witness ==
    /\ Returned("translate")
    /\ tr_vendor = Some("mitsubishi")
    /\ Len(tr_input) = 3
    /\ tr_input[1].mnemonic = "FOO" /\ tr_input[2].mnemonic = "OUT"
    /\ tr_input[3].mnemonic = "FOO"
    /\ Opcodes(program.instructions) = << "NOP", "STORE", "NOP" >>
    /\ program.instructions[2].address = 2

\* C23: every instruction translate emits has the record's mnemonic as its
\* source_instruction and the record's address as its address (0 for a
\* record that has none); an instruction for a mapped mnemonic has the
\* record's operands in their order (none for a record that has no operand
\* list) and the record's comment (none for a record that has none).
C23_Provenance ==
    \A vendor \in tr_vendor :
        (Returned("translate") /\ Lower(vendor) \in RegisteredVendors) =>
            \A k \in 1..Len(program.instructions) :
                LET rec == tr_input[k]
                    inst == program.instructions[k]
                IN  /\ inst.source_instruction = rec.mnemonic
                    /\ inst.address = (IF "address" \in rec.attrs THEN rec.address ELSE 0)
                    /\ rec.mnemonic \in DOMAIN InitialVendorMappings[Lower(vendor)] =>
                          /\ inst.operands =
                                (IF "operands" \in rec.attrs THEN rec.operands ELSE <<>>)
                          /\ inst.comment =
                                (IF "comment" \in rec.attrs THEN rec.comment ELSE None)

\* C23 witness: a mapped record with two operands, an address and a comment.
C23_Witness ==
    /\ Returned("translate")
    /\ tr_vendor = Some("ROCKWELL")
    /\ Len(tr_input) = 1
    /\ tr_input[1].mnemonic = "XIO"
    /\ program.instructions[1].source_instruction = "XIO"
    /\ program.instructions[1].operands = << "I0.0", "Q0.0" >>
    /\ program.instructions[1].address = 6
    /\ program.instructions[1].comment = Some(<< "first" >>)

\* The mapped mnemonics that are negated forms of another mnemonic of the
\* same vendor.
NegatedForms ==
    { << "siemens", "AN" >>, << "siemens", "ON" >>, << "mitsubishi", "LDI" >>,
      << "mitsubishi", "ANI" >>, << "mitsubishi", "ORI" >>, << "rockwell", "XIO" >> }

\* C24: an instruction translated from a negated form (Siemens AN, ON;
\* Mitsubishi LDI, ANI, ORI; Rockwell XIO) has negated = true in its metadata.
C24_NegatedFormsFlagged ==
    \A vendor \in tr_vendor :
        Returned("translate") =>
            \A k \in 1..Len(program.instructions) :
                << Lower(vendor), tr_input[k].mnemonic >> \in NegatedForms =>
                    << "negated", TRUE >> \in program.instructions[k].metadata

\* C30: in a Program translate returned, every instruction's source_vendor
\* equals the Program's source_vendor, and neither is the empty string.
C30_ConsistentProvenance ==
    Returned("translate") =>
        /\ program.source_vendor # ""
        /\ \A k \in 1..Len(program.instructions) :
              /\ program.instructions[k].source_vendor # ""
              /\ program.instructions[k].source_vendor = program.source_vendor

------------------------------------------------------------------------------
(* Further properties of optimize.                                          *)

\* C21: every MOVE that optimize built from a LOAD and a STORE has the
\* LOAD's address and source_vendor, source_instruction "OPTIMIZED",
\* metadata exactly {optimized: true} and comment "Combined LOAD+STORE",
\* whatever the metadata and comments of the LOAD and the STORE were.
C21_FusedFields ==
    Returned("optimize") =>
        \A k \in DOMAIN origins :
            Len(origins[k]) = 2 =>
                LET ld == opt_in[origins[k][1] + 1]
                    mv == program.instructions[k]
                IN  /\ mv.address = ld.address
                    /\ mv.source_vendor = ld.source_vendor
                    /\ mv.source_instruction = "OPTIMIZED"
                    /\ mv.metadata = { << "optimized", TRUE >> }
                    /\ mv.comment = Some(<< "Combined LOAD+STORE" >>)

\* C21 witness: a negated, commented LOAD of one vendor fused with a
\* commented STORE of another vendor at another address.
C21_Witness ==
    /\ Returned("optimize")
    /\ Len(opt_in) = 2
    /\ origins = << << 0, 1 >> >>
    /\ << "negated", TRUE >> \in opt_in[1].metadata
    /\ opt_in[1].source_vendor = "rockwell" /\ opt_in[2].source_vendor = "siemens"
    /\ opt_in[1].address = 0 /\ opt_in[2].address = 4
    /\ opt_in[1].comment # None /\ opt_in[2].comment # None
    /\ program.instructions[1].source_vendor = "rockwell"
    /\ program.instructions[1].address = 0
    /\ program.instructions[1].metadata = { << "optimized", TRUE >> }

\* C26: a step that is an optimize call leaves the Program's program_name,
\* source_vendor, global_variables, functions and metadata as they were.
C26_OnlyInstructions ==
    [][ calls' = calls + 1 =>
          /\ heap'[1].program_name = heap[1].program_name
          /\ heap'[1].source_vendor = heap[1].source_vendor
          /\ heap'[1].global_variables = heap[1].global_variables
          /\ heap'[1].functions = heap[1].functions
          /\ heap'[1].metadata = heap[1].metadata ]_vars

\* C26 witness: optimize shortened a translated Program, whose name,
\* vendor and metadata are those translate gave it.
C26_Witness ==
    /\ Returned("optimize")
    /\ tr_vendor = Some("LS")
    /\ Len(program.instructions) < Len(opt_in)
    /\ program.program_name = << "LS", "_program" >>
    /\ program.source_vendor = "LS"
    /\ << "translator_version", "1.0.0" >> \in program.metadata

\* The opcodes of the control-flow instructions the metrics read, in order.
ControlOpcodes(instructions) ==
    SelectSeq(Opcodes(instructions), LAMBDA op : op \in { "CALL", "RET", "JZ", "JNZ" })

\* C27: when optimize returns, the cyclomatic complexity and the nesting
\* depth of the output equal those of the input, and so does the ordered
\* subsequence of CALL, RET, JZ and JNZ instructions.
C27_MetricsPreserved ==
    Returned("optimize") =>
        /\ CalculateCyclomaticComplexity(program.instructions) =
              CalculateCyclomaticComplexity(opt_in)
        /\ CalculateNestingDepth(program.instructions) = CalculateNestingDepth(opt_in)
        /\ ControlOpcodes(program.instructions) = ControlOpcodes(opt_in)

\* C27 witness: a LOAD directly before a CALL, and a NOP, in the input; the
\* output keeps the CALL and reports complexity 2 and depth 1.
C27_Witness ==
    /\ Returned("optimize")
    /\ Opcodes(opt_in) = << "LOAD", "CALL", "NOP" >>
    /\ Opcodes(program.instructions) = << "LOAD", "CALL" >>
    /\ CalculateCyclomaticComplexity(program.instructions) = 2
    /\ CalculateNestingDepth(program.instructions) = 1

\* C28: a third optimize call that returns, and every later one, leaves the
\* instruction sequence as the call before it left it.
C28_FixedPointAfterTwo ==
    passes >= 3 => program.instructions = opt_in

\* C28 witness: [LOAD, NOP, STORE] from translate; the first call dropped the
\* NOP, the second fused the pair, the third changed nothing.
C28_Witness ==
    /\ Returned("optimize")
    /\ passes = 3
    /\ tr_vendor = Some("mitsubishi")
    /\ Len(tr_input) = 3
    /\ tr_input[1].mnemonic = "LD" /\ tr_input[2].mnemonic = "FOO"
    /\ tr_input[3].mnemonic = "OUT"
    /\ Opcodes(program.instructions) = << "MOVE" >>
    /\ opt_in = program.instructions

\* C29: once optimize has returned on a Program translate built, no
\* instruction of the Program has the unmapped-instruction warning, an
\* "Unknown: ..." comment or a mnemonic that the vendor's table does not hold
\* as its source_instruction, and the Program's metadata is the one translate
\* gave it (no count of placeholders).
C29_PlaceholdersGone ==
    \A vendor \in tr_vendor :
        (passes >= 1 /\ heap # <<>>) =>
            /\ \A k \in 1..Len(program.instructions) :
                  LET inst == program.instructions[k]
                  IN  /\ \A pair \in inst.metadata : pair[1] # "warning"
                      /\ \A c \in inst.comment : c[1] # "Unknown: "
                      /\ \/ inst.source_instruction = "OPTIMIZED"
                         \/ inst.source_instruction \in
                               DOMAIN InitialVendorMappings[Lower(vendor)]
            /\ program.metadata = { << "translation_date", "2024-01-01" >>,
                                    << "translator_version", "1.0.0" >> }

\* C29 witness: translate met two unknown mnemonics around a mapped one, and
\* optimize returned a Program of that one instruction.
C29_Witness ==
    /\ Returned("optimize")
    /\ tr_vendor = Some("mitsubishi")
    /\ Len(tr_input) = 3
    /\ tr_input[1].mnemonic = "FOO" /\ tr_input[2].mnemonic = "ANI"
    /\ tr_input[3].mnemonic = "FOO"
    /\ passes = 1
    /\ Opcodes(program.instructions) = << "AND" >>

------------------------------------------------------------------------------
(* analyze_complexity as a reader.                                          *)

\* C25: a step that is an analyze_complexity call leaves the Program (its
\* instruction sequence, every field of every instruction, and its other
\* fields) as it was, and when the call before it was an analyze_complexity
\* call too, it returns the report that one returned.
C25_AnalyzeReadOnly ==
    [][ last' = "analyze" =>
          /\ heap' = heap
          /\ last = "analyze" => report' = report ]_vars

\* C25 witness: a report on an optimized Program of two instructions, which
\* the Program still holds.
C25_Witness ==
    /\ Returned("analyze")
    /\ passes >= 1
    /\ Opcodes(program.instructions) = << "MOVE", "CALL" >>
    /\ TheReport.total_instructions = 2
    /\ TheReport.cyclomatic_complexity = 2

====
